---- MODULE Spec2Model ----
(***************************************************************************)
(* Model of simple-sprite-atlas: the GridPacker layout engine              *)
(* (src/src/packer.ts), AtlasGenerator.generate with its manifest          *)
(* (src/src/generator.ts) and the command line program (src/src/cli.ts).   *)
(*                                                                         *)
(* A sprite is a record [key, width, height, buffer].  Keys are modelled   *)
(* by their rank in localeCompare order (key 1 sorts before key 2), the    *)
(* buffer by a token that identifies the input image.  gridSize = 0 stands *)
(* for an undefined gridSize (falsy in `if (this.gridSize)`).              *)
(***************************************************************************)
EXTENDS Integers, Sequences, FiniteSets

VARIABLES packer, sprites, call, ret

\* the generator (src/src/generator.ts): its options, the image files its
\* input pattern matches, the image each key's file holds, the files at its
\* output path, the progress of the generate() call in flight, the file
\* operations that call has made, and the number of generate() calls started
VARIABLES options, files, images, disk, run, io, runs

\* the command line program (src/src/cli.ts): its arguments, how far its
\* action has come and the code it exited with
VARIABLES cli

genVars == <<options, files, images, disk, run, io, runs, cli>>

vars == <<packer, sprites, call, ret, options, files, images, disk, run, io, runs, cli>>

\* ---- bounds of the model ----
MaxSprites == 3
MaxDim == 2
MaxPadding == 2
MaxMaxSize == 4
MaxGridSize == 3
MaxRuns == 2
MaxGenPadding == 1
GenGridSize == 2
MaxDigits == 2
MaxRaceSprites == 2

\* ---- small helpers for the JavaScript built-ins the code uses ----

Max(a, b) == IF a >= b THEN a ELSE b

Min(a, b) == IF a <= b THEN a ELSE b

\* Math.ceil(a / b) for integers a >= 0, b > 0
CeilDivFloor(a, b) == a \div b

CeilDiv(a, b) == (a + b - 1) \div b

\* Math.floor(a / 2) for an integer a >= 0
FloorHalf(a) == a \div 2

\* a.key.localeCompare(b.key): keys are modelled by their collation rank
localeCompare(a, b) == a - b

RECURSIVE Pow2AtLeast(_, _)
Pow2AtLeast(p, n) == IF p >= n THEN p ELSE Pow2AtLeast(2 * p, n)

\* Math.pow(2, Math.ceil(Math.log2(n))); log2(0) = -Infinity gives 0
nextPowerOf2Identity(n) == n

nextPowerOf2(n) == IF n <= 0 THEN 0 ELSE Pow2AtLeast(1, n)

\* ---- Array.prototype.sort (stable) with the two comparators ----

\* comparator of packRowBased: negative when a goes before b
RowCompareAscending(p, a, b) ==
    IF p.stableOrder THEN localeCompare(a.key, b.key) ELSE a.height - b.height

RowCompare(p, a, b) ==
    IF p.stableOrder THEN localeCompare(a.key, b.key) ELSE b.height - a.height

\* comparator of packFixedGrid
GridCompareByHeight(p, a, b) ==
    IF p.stableOrder THEN localeCompare(a.key, b.key) ELSE b.height - a.height

GridCompare(p, a, b) ==
    IF p.stableOrder THEN localeCompare(a.key, b.key)
    ELSE b.width * b.height - a.width * a.height

Compare(p, a, b) ==
    IF p.gridSize # 0 THEN GridCompare(p, a, b) ELSE RowCompare(p, a, b)

\* insert x behind every element that does not compare greater than it
RECURSIVE InsertSorted(_, _, _)
InsertSorted(p, x, s) ==
    IF s = << >> THEN <<x>>
    ELSE IF Compare(p, Head(s), x) <= 0
         THEN <<Head(s)>> \o InsertSorted(p, x, Tail(s))
         ELSE <<x>> \o s

RECURSIVE SortFrom(_, _, _)
SortFrom(p, s, acc) ==
    IF s = << >> THEN acc
    ELSE SortFrom(p, Tail(s), InsertSorted(p, Head(s), acc))

\* [...sprites].sort(cmp)
sortedSprites(p, s) == SortFrom(p, s, << >>)

\* ---- packRowBased ----

\* cursor and accumulators of packRowBased before the loop
RowStart(p) ==
    [placements |-> << >>, currentX |-> p.padding, currentY |-> p.padding,
     rowHeight |-> 0, maxWidth |-> 0, maxHeight |-> 0, thrown |-> FALSE]

\* currentY += rowHeight when a new row is started
NextRowYStuck(st) == st.currentY

NextRowY(st) == st.currentY + st.rowHeight

\* placements.push({...sprite, x: currentX, y: currentY})
RowPlacementInflated(p, sprite, x, y) ==
    [key |-> sprite.key, width |-> sprite.width + p.padding,
     height |-> sprite.height + p.padding, buffer |-> sprite.buffer,
     x |-> x, y |-> y]

RowPlacement(p, sprite, x, y) ==
    [key |-> sprite.key, width |-> sprite.width, height |-> sprite.height,
     buffer |-> sprite.buffer, x |-> x, y |-> y]

\* the Error thrown by packRowBased: its text up to the first number, and the
\* numbers interpolated into it (gridSize 0: no grid size in the message)
RowErrorMessage(p) ==
    [text |-> "Cannot fit all sprites in atlas. Maximum size:",
     gridSize |-> 0, maxSize |-> p.maxSize]

\* the height test made right after a wrap
RowExceedsNever(p, y, spriteHeight) == FALSE

RowExceedsInclusive(p, y, spriteHeight) == y + spriteHeight >= p.maxSize

RowExceeds(p, y, spriteHeight) == y + spriteHeight > p.maxSize

\* one iteration of the for loop of packRowBased
RowStep(p, st, sprite) ==
    IF st.thrown THEN st
    ELSE
    LET spriteWidth == sprite.width + p.padding
        spriteHeight == sprite.height + p.padding
        wrap == st.currentX + spriteWidth > p.maxSize
        x == IF wrap THEN p.padding ELSE st.currentX
        y == IF wrap THEN NextRowY(st) ELSE st.currentY
        rh == IF wrap THEN 0 ELSE st.rowHeight
    IN  IF wrap /\ RowExceeds(p, y, spriteHeight)
        THEN [st EXCEPT !.thrown = TRUE]
        ELSE [placements |-> Append(st.placements, RowPlacement(p, sprite, x, y)),
              currentX |-> x + spriteWidth,
              currentY |-> y,
              rowHeight |-> Max(rh, spriteHeight),
              maxWidth |-> Max(st.maxWidth, x + sprite.width + p.padding),
              maxHeight |-> Max(st.maxHeight, y + sprite.height + p.padding),
              thrown |-> FALSE]

RECURSIVE RowLoop(_, _, _)
RowLoop(p, s, st) ==
    IF s = << >> THEN st ELSE RowLoop(p, Tail(s), RowStep(p, st, Head(s)))

packRowBased(p, s) ==
    LET st == RowLoop(p, sortedSprites(p, s), RowStart(p))
    IN  IF st.thrown
        THEN [status |-> "error", message |-> RowErrorMessage(p)]
        ELSE [status |-> "ok",
              placements |-> st.placements,
              width |-> Min(nextPowerOf2(st.maxWidth), p.maxSize),
              height |-> Min(nextPowerOf2(st.maxHeight), p.maxSize)]

\* ---- packFixedGrid ----

GridStart(p) ==
    [placements |-> << >>, currentX |-> 0, currentY |-> 0,
     rowHeight |-> 0, maxWidth |-> 0, maxHeight |-> 0, thrown |-> FALSE]

\* the Error thrown by packFixedGrid
GridErrorMessageAsRow(p) == RowErrorMessage(p)

GridErrorMessage(p) ==
    [text |-> "Cannot fit all sprites in atlas with grid size",
     gridSize |-> p.gridSize, maxSize |-> p.maxSize]

\* offsetX / offsetY: Math.floor((cell - size) / 2)
GridOffset(cell, size) == FloorHalf(cell - size)

\* placements.push({...sprite, x, y, gridX, gridY, gridCellsWide, gridCellsHigh})
GridPlacementColumnFromRow(p, sprite, cx, cy, cellsWide, cellsHigh) ==
    [key |-> sprite.key, width |-> sprite.width, height |-> sprite.height,
     buffer |-> sprite.buffer,
     x |-> cx + GridOffset(cellsWide * p.gridSize, sprite.width),
     y |-> cy + GridOffset(cellsHigh * p.gridSize, sprite.height),
     gridX |-> cy \div p.gridSize,
     gridY |-> cy \div p.gridSize,
     gridCellsWide |-> cellsWide,
     gridCellsHigh |-> cellsHigh]

GridPlacement(p, sprite, cx, cy, cellsWide, cellsHigh) ==
    [key |-> sprite.key, width |-> sprite.width, height |-> sprite.height,
     buffer |-> sprite.buffer,
     x |-> cx + GridOffset(cellsWide * p.gridSize, sprite.width),
     y |-> cy + GridOffset(cellsHigh * p.gridSize, sprite.height),
     gridX |-> cx \div p.gridSize,
     gridY |-> cy \div p.gridSize,
     gridCellsWide |-> cellsWide,
     gridCellsHigh |-> cellsHigh]

\* one iteration of the for loop of packFixedGrid
GridStep(p, st, sprite) ==
    IF st.thrown THEN st
    ELSE
    LET cellsWide == CeilDiv(sprite.width + p.padding, p.gridSize)
        cellsHigh == CeilDiv(sprite.height + p.padding, p.gridSize)
        cellWidth == cellsWide * p.gridSize
        cellHeight == cellsHigh * p.gridSize
        wrap == st.currentX + cellWidth > p.maxSize
        x == IF wrap THEN 0 ELSE st.currentX
        y == IF wrap THEN st.currentY + st.rowHeight ELSE st.currentY
        rh == IF wrap THEN 0 ELSE st.rowHeight
    IN  IF wrap /\ y + cellHeight > p.maxSize
        THEN [st EXCEPT !.thrown = TRUE]
        ELSE [placements |-> Append(st.placements,
                  GridPlacement(p, sprite, x, y, cellsWide, cellsHigh)),
              currentX |-> x + cellWidth,
              currentY |-> y,
              rowHeight |-> Max(rh, cellHeight),
              maxWidth |-> Max(st.maxWidth, x + cellWidth),
              maxHeight |-> Max(st.maxHeight, y + cellHeight),
              thrown |-> FALSE]

RECURSIVE GridLoop(_, _, _)
GridLoop(p, s, st) ==
    IF s = << >> THEN st ELSE GridLoop(p, Tail(s), GridStep(p, st, Head(s)))

packFixedGrid(p, s) ==
    LET st == GridLoop(p, sortedSprites(p, s), GridStart(p))
        gridAlignedWidth == CeilDiv(st.maxWidth, p.gridSize) * p.gridSize
        gridAlignedHeight == CeilDiv(st.maxHeight, p.gridSize) * p.gridSize
    IN  IF st.thrown
        THEN [status |-> "error", message |-> GridErrorMessage(p)]
        ELSE [status |-> "ok",
              placements |-> st.placements,
              width |-> Min(nextPowerOf2(gridAlignedWidth), p.maxSize),
              height |-> Min(nextPowerOf2(gridAlignedHeight), p.maxSize)]

\* ---- public operations of GridPacker ----

\* what the caller's array holds after pack: the sort works on a copy,
\* [...sprites], and each placement is a new object, {...sprite, x, y}
inputAfterPackSortedInPlace(p, s) == sortedSprites(p, s)

inputAfterPack(p, s) == s

packRejectsEmpty(p, s) ==
    IF Len(s) = 0 THEN [status |-> "error", message |-> RowErrorMessage(p)]
    ELSE IF p.gridSize # 0 THEN packFixedGrid(p, s)
    ELSE packRowBased(p, s)

pack(p, s) ==
    IF Len(s) = 0 THEN [status |-> "ok", placements |-> << >>, width |-> 0, height |-> 0]
    ELSE IF p.gridSize # 0 THEN packFixedGrid(p, s)
    ELSE packRowBased(p, s)

calculateRequiredAreaUnpadded(p, s) ==
    IF s = << >> THEN 0
    ELSE LET n == Len(s)
             f[i \in 0..n] == IF i = 0 THEN 0 ELSE f[i - 1] + s[i].width * s[i].height
         IN  f[n]

RECURSIVE calculateRequiredArea(_, _)
calculateRequiredArea(p, s) ==
    IF s = << >> THEN 0
    ELSE (Head(s).width + p.padding) * (Head(s).height + p.padding)
         + calculateRequiredArea(p, Tail(s))

canFitAreaInclusive(p, s) ==
    /\ ~(calculateRequiredArea(p, s) >= p.maxSize * p.maxSize)
    /\ \A i \in 1..Len(s) : ~(s[i].width > p.maxSize \/ s[i].height > p.maxSize)

canFit(p, s) ==
    /\ ~(calculateRequiredArea(p, s) > p.maxSize * p.maxSize)
    /\ \A i \in 1..Len(s) : ~(s[i].width > p.maxSize \/ s[i].height > p.maxSize)

\* ---- AtlasGenerator: the manifest and reorderSpritesFromManifest ----

\* no file at <output>.manifest.json
NoManifest == [exists |-> FALSE, spriteOrder |-> << >>]

\* loadManifest: the parsed file, or null (exists = FALSE) when it is missing
loadManifest(d) == d.manifest

\* [...sprites].sort((a, b) => a.key.localeCompare(b.key)), stable
RECURSIVE InsertByKey(_, _)
InsertByKey(x, s) ==
    IF s = << >> THEN <<x>>
    ELSE IF localeCompare(Head(s).key, x.key) <= 0
         THEN <<Head(s)>> \o InsertByKey(x, Tail(s))
         ELSE <<x>> \o s

RECURSIVE SortByKeyFrom(_, _)
SortByKeyFrom(s, acc) ==
    IF s = << >> THEN acc ELSE SortByKeyFrom(Tail(s), InsertByKey(Head(s), acc))

SortByKeyKeepsInput(s) == s

SortByKey(s) == SortByKeyFrom(s, << >>)

\* spriteMap.has(key) and spriteMap.get(key): the last sprite set under key
spriteMapHas(s, key) == \E i \in 1..Len(s) : s[i].key = key

spriteMapGet(s, key) ==
    s[CHOOSE i \in 1..Len(s) :
        /\ s[i].key = key
        /\ \A j \in 1..Len(s) : s[j].key = key => j <= i]

\* the loop over manifest.spriteOrder: sprites still present, manifest order
RECURSIVE orderedSprites(_, _)
orderedSprites(s, order) ==
    IF order = << >> THEN << >>
    ELSE IF spriteMapHas(s, Head(order))
         THEN <<spriteMapGet(s, Head(order))>> \o orderedSprites(s, Tail(order))
         ELSE orderedSprites(s, Tail(order))

\* Array.from(newSpriteKeys): the keys of spriteMap in insertion order,
\* without those the loop over the manifest deleted
RECURSIVE newSpriteKeys(_, _, _)
newSpriteKeys(s, order, seen) ==
    IF s = << >> THEN << >>
    ELSE IF Head(s).key \in seen \/ \E i \in 1..Len(order) : order[i] = Head(s).key
         THEN newSpriteKeys(Tail(s), order, seen)
         ELSE <<Head(s).key>> \o newSpriteKeys(Tail(s), order, seen \cup {Head(s).key})

\* newSprites: the new keys mapped to their sprites, sorted by key
newSpritesKeepsListed(s, order) == SortByKey(s)

newSprites(s, order) ==
    LET ks == newSpriteKeys(s, order, {})
    IN  SortByKey([i \in 1..Len(ks) |-> spriteMapGet(s, ks[i])])

reorderSpritesFromManifest(s, manifest) ==
    IF ~manifest.exists \/ Len(manifest.spriteOrder) = 0
    THEN SortByKey(s)
    ELSE orderedSprites(s, manifest.spriteOrder) \o newSprites(s, manifest.spriteOrder)

\* ---- the state machine: one packer, one sprite list, calls on it ----

Keys == 1..MaxSprites

\* sprite lists a caller can hand over: positive sizes, distinct keys, the
\* buffer token is the position of the sprite in the input
SpriteLists ==
    UNION { { s \in [1..n -> [key : Keys, width : 1..MaxDim, height : 1..MaxDim,
                              buffer : 1..n]] :
                /\ \A i \in 1..n : s[i].buffer = i
                /\ \A i, j \in 1..n : i # j => s[i].key # s[j].key }
            : n \in 0..MaxSprites }

Packers ==
    [padding : 0..MaxPadding, maxSize : 1..MaxMaxSize,
     gridSize : 0..MaxGridSize, stableOrder : BOOLEAN]

\* no generator at work: these variables stay as they are in the
\* specifications of the packer and of the reordering alone
NoOptions ==
    [format |-> "phaser3-hash", stableOrder |-> FALSE, preserveIds |-> FALSE,
     padding |-> 0, spacing |-> 0, maxSize |-> 1, gridSize |-> 0]

\* no file at <output>.png and at <output>.json
NoImage == [exists |-> FALSE, composites |-> << >>, width |-> 0, height |-> 0]

NoJSON == [exists |-> FALSE, frames |-> << >>, width |-> 0, height |-> 0]

\* no file at <output>.tsj
NoTileset ==
    [exists |-> FALSE, tiles |-> << >>, tilewidth |-> 0, tileheight |-> 0,
     tilecount |-> 0, columns |-> 0, imagewidth |-> 0, imageheight |-> 0,
     spacing |-> 0]

NoDisk == [image |-> NoImage, json |-> NoJSON, tsj |-> NoTileset, manifest |-> NoManifest]

Idle == [status |-> "idle", step |-> 0]

\* the library is used without the command line program
NoCli == [status |-> "unused"]

GenUnused ==
    /\ cli = NoCli
    /\ options = NoOptions
    /\ files = {}
    /\ images = << >>
    /\ run = Idle
    /\ io = << >>
    /\ runs = 0

\* new GridPacker(padding, maxSize, gridSize, stableOrder) and a sprite list
Init ==
    /\ packer \in Packers
    /\ sprites \in SpriteLists
    /\ call = "none"
    /\ ret = [status |-> "none"]
    /\ GenUnused
    /\ disk = NoDisk

Pack ==
    /\ call' = "pack"
    /\ ret' = pack(packer, sprites)
    /\ sprites' = inputAfterPack(packer, sprites)
    /\ UNCHANGED packer
    /\ UNCHANGED genVars

CanFit ==
    /\ call' = "canFit"
    /\ ret' = [status |-> "value", value |-> canFit(packer, sprites)]
    /\ UNCHANGED <<packer, sprites>>
    /\ UNCHANGED genVars

CalculateRequiredArea ==
    /\ call' = "calculateRequiredArea"
    /\ ret' = [status |-> "value", value |-> calculateRequiredArea(packer, sprites)]
    /\ UNCHANGED <<packer, sprites>>
    /\ UNCHANGED genVars

Next == Pack \/ CanFit \/ CalculateRequiredArea

Spec == Init /\ [][Next]_vars

\* ---- reorderSpritesFromManifest alone: a sprite list and a manifest ----

\* the sprite lists loadSprites can return, told apart by their keys only
KeyedSpriteLists ==
    UNION { { s \in [1..n -> [key : Keys, width : {1}, height : {1}, buffer : 1..n]] :
                /\ \A i \in 1..n : s[i].buffer = i
                /\ \A i, j \in 1..n : i # j => s[i].key # s[j].key }
            : n \in 0..MaxSprites }

\* the manifests saveManifest can have written: no key twice
Manifests ==
    {NoManifest} \cup
    UNION { { [exists |-> TRUE, spriteOrder |-> o] :
                o \in { q \in [1..n -> Keys] : \A i, j \in 1..n : i # j => q[i] # q[j] } }
            : n \in 0..MaxSprites }

InitReorder ==
    /\ packer = [padding |-> 0, maxSize |-> 1, gridSize |-> 0, stableOrder |-> FALSE]
    /\ sprites \in KeyedSpriteLists
    /\ call = "none"
    /\ ret = [status |-> "none"]
    /\ GenUnused
    /\ disk \in {[NoDisk EXCEPT !.manifest = m] : m \in Manifests}

Reorder ==
    /\ call' = "reorderSpritesFromManifest"
    /\ ret' = [status |-> "value",
               value |-> reorderSpritesFromManifest(sprites, loadManifest(disk))]
    /\ UNCHANGED <<packer, sprites>>
    /\ UNCHANGED genVars

NextReorder == Reorder

SpecReorder == InitReorder /\ [][NextReorder]_vars

\* ---- AtlasGenerator.generate, step by step ----

\* options.spacing is left at its default
DefaultSpacing == 0

GenOptions ==
    [format : {"phaser3-hash"}, stableOrder : BOOLEAN, preserveIds : BOOLEAN,
     padding : 0..MaxGenPadding, spacing : {DefaultSpacing},
     maxSize : (MaxMaxSize - 1)..MaxMaxSize, gridSize : {0, GenGridSize}]

\* the image stored in each file: its width and height (square images)
ImageSizes ==
    { [k \in Keys |-> [width |-> side[k], height |-> side[k]]] :
        side \in [Keys -> 1..MaxDim] }

\* the orders in which glob can list a set of files
GlobOrders(fs) ==
    { o \in [1..Cardinality(fs) -> fs] :
        \A i, j \in 1..Cardinality(fs) : i # j => o[i] # o[j] }

\* the SpriteInfo loadSprites builds for a file
spriteInfo(k) ==
    [key |-> k, width |-> images[k].width, height |-> images[k].height, buffer |-> k]

\* the awaited calls of generate(), in the order of its body
GenerateStepsEitherFlag(o) ==
    IF o.stableOrder \/ o.preserveIds
    THEN <<"loadSprites", "reorderSpritesFromManifest", "canFit", "pack",
           "generateImage", "generateJSON", "saveManifest">>
    ELSE <<"loadSprites", "canFit", "pack", "generateImage", "generateJSON">>

GenerateStepsImageFirst(o) ==
    IF o.stableOrder /\ o.preserveIds
    THEN <<"loadSprites", "reorderSpritesFromManifest", "generateImage", "canFit",
           "pack", "generateJSON", "saveManifest">>
    ELSE <<"loadSprites", "generateImage", "canFit", "pack", "generateJSON">>

GenerateSteps(o) ==
    IF o.stableOrder /\ o.preserveIds
    THEN <<"loadSprites", "reorderSpritesFromManifest", "canFit", "pack",
           "generateImage", "generateJSON", "saveManifest">>
    ELSE <<"loadSprites", "canFit", "pack", "generateImage", "generateJSON">>

Running == run.status = "running"

NextStep == GenerateSteps(options)[run.step + 1]

\* the call returned: go on with the next one, or return the AtlasResult
Advance ==
    IF run.step + 1 = Len(GenerateSteps(options))
    THEN [status |-> "done", step |-> run.step + 1]
    ELSE [status |-> "running", step |-> run.step + 1]

\* an Error was thrown: generate() rejects
Failed == [status |-> "failed", step |-> run.step]

\* what pack returned, or nothing when generateImage runs before pack
Placed == IF ret.status = "ok" THEN ret ELSE pack(packer, << >>)

InitGen ==
    /\ options \in GenOptions
    /\ images \in ImageSizes
    /\ files \in SUBSET Keys
    /\ disk = NoDisk
    /\ run = Idle
    /\ io = << >>
    /\ runs = 0
    /\ cli = NoCli
    /\ packer = [padding |-> 0, maxSize |-> 1, gridSize |-> 0, stableOrder |-> FALSE]
    /\ sprites = << >>
    /\ call = "none"
    /\ ret = [status |-> "none"]

\* generateAtlas(options): a new generate() call, after the previous ended
Generate ==
    /\ ~Running
    /\ runs < MaxRuns
    /\ runs' = runs + 1
    /\ run' = [status |-> "running", step |-> 0]
    /\ io' = << >>
    /\ sprites' = << >>
    /\ ret' = [status |-> "none"]
    /\ call' = "generate"
    /\ UNCHANGED <<packer, options, files, images, disk, cli>>

\* files are added to or removed from the input directory between two builds
ChangeFiles ==
    /\ ~Running
    /\ runs < MaxRuns
    /\ \E fs \in SUBSET Keys : fs # files /\ files' = fs
    /\ UNCHANGED <<packer, sprites, call, ret, options, images, disk, run, io, runs, cli>>

LoadSprites ==
    /\ Running /\ NextStep = "loadSprites"
    /\ \E o \in GlobOrders(files) :
          sprites' = [i \in 1..Len(o) |-> spriteInfo(o[i])]
    /\ run' = IF Len(sprites') = 0 THEN Failed ELSE Advance
    /\ call' = "loadSprites"
    /\ UNCHANGED <<packer, ret, options, files, images, disk, io, runs, cli>>

ReorderSprites ==
    /\ Running /\ NextStep = "reorderSpritesFromManifest"
    /\ sprites' = reorderSpritesFromManifest(sprites, loadManifest(disk))
    /\ io' = Append(io, "readManifest")
    /\ run' = Advance
    /\ call' = "reorderSpritesFromManifest"
    /\ UNCHANGED <<packer, ret, options, files, images, disk, runs, cli>>

\* new GridPacker(padding + spacing, maxSize, gridSize, false), then canFit
CheckCanFit ==
    /\ Running /\ NextStep = "canFit"
    /\ packer' = [padding |-> options.padding + options.spacing,
                  maxSize |-> options.maxSize,
                  gridSize |-> options.gridSize,
                  stableOrder |-> FALSE]
    /\ run' = IF canFit(packer', sprites) THEN Advance ELSE Failed
    /\ call' = "canFit"
    /\ UNCHANGED <<sprites, ret, options, files, images, disk, io, runs, cli>>

PackSprites ==
    /\ Running /\ NextStep = "pack"
    /\ ret' = pack(packer, sprites)
    /\ run' = IF ret'.status = "ok" THEN Advance ELSE Failed
    /\ call' = "pack"
    /\ sprites' = inputAfterPack(packer, sprites)
    /\ UNCHANGED <<packer, options, files, images, disk, io, runs, cli>>

\* ---- the files generate() writes ----

\* generateImage: the canvas and the composite operations
compositeImage(r) ==
    [exists |-> TRUE,
     composites |-> [i \in 1..Len(r.placements) |->
                       [input |-> r.placements[i].buffer,
                        left |-> r.placements[i].x,
                        top |-> r.placements[i].y]],
     width |-> r.width, height |-> r.height]

\* generatePhaserHashFormat / generatePhaserArrayFormat: the frames in
\* placement order
phaserFrames(r) ==
    [exists |-> TRUE,
     frames |-> [i \in 1..Len(r.placements) |->
                   [filename |-> r.placements[i].key,
                    x |-> r.placements[i].x,
                    y |-> r.placements[i].y,
                    w |-> r.placements[i].width,
                    h |-> r.placements[i].height]],
     width |-> r.width, height |-> r.height]

\* const threshold = 5
TiledThreshold == 5

Abs(n) == IF n < 0 THEN 0 - n ELSE n

\* calculateTiledColumns: the placements about as high as the first one
calculateTiledColumns(placements) ==
    IF Len(placements) = 0 THEN 0
    ELSE Max(1, Cardinality({i \in 1..Len(placements) :
                 Abs(placements[i].y - placements[1].y) <= TiledThreshold}))

\* columns of the tileset when gridSize is set
tiledGridColumnsCeil(o, width) == CeilDiv(width, o.gridSize)

tiledGridColumns(o, width) == width \div o.gridSize

\* generateTiledFormat: tile ids are placement indices, counted from 0
generateTiledFormat(o, r) ==
    [exists |-> TRUE,
     tiles |-> [i \in 1..Len(r.placements) |->
                  [id |-> i - 1, type |-> r.placements[i].key]],
     tilewidth |-> IF o.gridSize # 0 THEN o.gridSize ELSE r.placements[1].width,
     tileheight |-> IF o.gridSize # 0 THEN o.gridSize ELSE r.placements[1].height,
     tilecount |-> Len(r.placements),
     columns |-> IF o.gridSize # 0 THEN tiledGridColumns(o, r.width)
                 ELSE calculateTiledColumns(r.placements),
     imagewidth |-> r.width, imageheight |-> r.height,
     spacing |-> o.padding + o.spacing]

\* saveManifest: spriteOrder is placements.map(p => p.key)
savedManifestReversed(r) ==
    [exists |-> TRUE,
     spriteOrder |-> [i \in 1..Len(r.placements) |->
                        r.placements[Len(r.placements) + 1 - i].key]]

savedManifest(r) ==
    [exists |-> TRUE,
     spriteOrder |-> [i \in 1..Len(r.placements) |-> r.placements[i].key]]

\* generateJSON writes <output>.json, or <output>.tsj in the tiled format
diskAfterJSON(o, d, r) ==
    IF o.format = "tiled"
    THEN [d EXCEPT !.tsj = generateTiledFormat(o, r)]
    ELSE [d EXCEPT !.json = phaserFrames(r)]

GenerateImage ==
    /\ Running /\ NextStep = "generateImage"
    /\ disk' = [disk EXCEPT !.image = compositeImage(Placed)]
    /\ io' = Append(io, "writeImage")
    /\ run' = Advance
    /\ call' = "generateImage"
    /\ UNCHANGED <<packer, sprites, ret, options, files, images, runs, cli>>

GenerateJSON ==
    /\ Running /\ NextStep = "generateJSON"
    /\ disk' = diskAfterJSON(options, disk, Placed)
    /\ io' = Append(io, "writeJSON")
    /\ run' = Advance
    /\ call' = "generateJSON"
    /\ UNCHANGED <<packer, sprites, ret, options, files, images, runs, cli>>

SaveManifest ==
    /\ Running /\ NextStep = "saveManifest"
    /\ disk' = [disk EXCEPT !.manifest = savedManifest(Placed)]
    /\ io' = Append(io, "writeManifest")
    /\ run' = Advance
    /\ call' = "saveManifest"
    /\ UNCHANGED <<packer, sprites, ret, options, files, images, runs, cli>>

NextGen ==
    \/ Generate
    \/ ChangeFiles
    \/ LoadSprites
    \/ ReorderSprites
    \/ CheckCanFit
    \/ PackSprites
    \/ GenerateImage
    \/ GenerateJSON
    \/ SaveManifest

SpecGen == InitGen /\ [][NextGen]_vars

\* ---- two generate() calls on one output path, interleaved ----

\* the two calls; each has its own sprites, packer, last call, pack result,
\* progress and record of file operations, and they share the files on disk
Procs == {"first", "second"}

\* both calls run with stableOrder and preserveIds, without padding, in
\* the largest atlas
RaceOptions ==
    {o \in GenOptions :
        o.stableOrder /\ o.preserveIds /\ o.padding = 0 /\ o.maxSize = MaxMaxSize}

\* the files the two calls can find in the input directory
RaceKeys == 1..MaxRaceSprites

RaceImageSizes ==
    {im \in ImageSizes : \A k \in Keys \ RaceKeys : im[k].width = 1}

\* the manifest on disk when the two calls start: none, or one that an
\* earlier build of such files saved
RaceManifests ==
    {m \in Manifests : \A i \in 1..Len(m.spriteOrder) : m.spriteOrder[i] \in RaceKeys}

\* the call's progress, with the manifest its reorderSpritesFromManifest read
RaceIdle == [status |-> "running", step |-> 0, manifest |-> NoManifest]

RaceNextStep(p) == GenerateSteps(options)[run[p].step + 1]

RaceAt(p, name) == run[p].status = "running" /\ RaceNextStep(p) = name

RaceAdvance(p) ==
    [run[p] EXCEPT !.status = IF run[p].step + 1 = Len(GenerateSteps(options))
                               THEN "done" ELSE "running",
                   !.step = run[p].step + 1]

RaceFailed(p) == [run[p] EXCEPT !.status = "failed"]

\* what saveManifest of call p stores: its own order, whatever is on disk
raceStoredManifestGuarded(p) ==
    IF disk.manifest = run[p].manifest THEN savedManifest(ret[p]) ELSE disk.manifest

raceStoredManifest(p) == savedManifest(ret[p])

InitRace ==
    /\ options \in RaceOptions
    /\ images \in RaceImageSizes
    /\ files \in SUBSET RaceKeys
    /\ disk \in {[NoDisk EXCEPT !.manifest = m] : m \in RaceManifests}
    /\ run = [p \in Procs |-> RaceIdle]
    /\ io = [p \in Procs |-> << >>]
    /\ runs = Cardinality(Procs)
    /\ cli = NoCli
    /\ packer = [p \in Procs |->
                   [padding |-> 0, maxSize |-> 1, gridSize |-> 0, stableOrder |-> FALSE]]
    /\ sprites = [p \in Procs |-> << >>]
    /\ call = [p \in Procs |-> "generate"]
    /\ ret = [p \in Procs |-> [status |-> "none"]]

\* the input directory changes while a call has not listed it yet
RaceChangeFiles ==
    /\ \E p \in Procs : RaceAt(p, "loadSprites")
    /\ \E fs \in SUBSET RaceKeys : fs # files /\ files' = fs
    /\ UNCHANGED <<packer, sprites, call, ret, options, images, disk, run, io, runs, cli>>

RaceLoadSprites(p) ==
    /\ RaceAt(p, "loadSprites")
    /\ \E o \in GlobOrders(files) :
          sprites' = [sprites EXCEPT ![p] = [i \in 1..Len(o) |-> spriteInfo(o[i])]]
    /\ run' = [run EXCEPT ![p] = IF Len(sprites'[p]) = 0 THEN RaceFailed(p)
                                 ELSE RaceAdvance(p)]
    /\ call' = [call EXCEPT ![p] = "loadSprites"]
    /\ UNCHANGED <<packer, ret, options, files, images, disk, io, runs, cli>>

RaceReorderSprites(p) ==
    /\ RaceAt(p, "reorderSpritesFromManifest")
    /\ sprites' = [sprites EXCEPT ![p] =
                     reorderSpritesFromManifest(sprites[p], loadManifest(disk))]
    /\ io' = [io EXCEPT ![p] = Append(io[p], "readManifest")]
    /\ run' = [run EXCEPT ![p] = [RaceAdvance(p) EXCEPT !.manifest = loadManifest(disk)]]
    /\ call' = [call EXCEPT ![p] = "reorderSpritesFromManifest"]
    /\ UNCHANGED <<packer, ret, options, files, images, disk, runs, cli>>

RaceCheckCanFit(p) ==
    /\ RaceAt(p, "canFit")
    /\ packer' = [packer EXCEPT ![p] =
                    [padding |-> options.padding + options.spacing,
                     maxSize |-> options.maxSize,
                     gridSize |-> options.gridSize,
                     stableOrder |-> FALSE]]
    /\ run' = [run EXCEPT ![p] = IF canFit(packer'[p], sprites[p])
                                 THEN RaceAdvance(p) ELSE RaceFailed(p)]
    /\ call' = [call EXCEPT ![p] = "canFit"]
    /\ UNCHANGED <<sprites, ret, options, files, images, disk, io, runs, cli>>

RacePackSprites(p) ==
    /\ RaceAt(p, "pack")
    /\ ret' = [ret EXCEPT ![p] = pack(packer[p], sprites[p])]
    /\ run' = [run EXCEPT ![p] = IF ret'[p].status = "ok"
                                 THEN RaceAdvance(p) ELSE RaceFailed(p)]
    /\ call' = [call EXCEPT ![p] = "pack"]
    /\ sprites' = [sprites EXCEPT ![p] = inputAfterPack(packer[p], sprites[p])]
    /\ UNCHANGED <<packer, options, files, images, disk, io, runs, cli>>

RaceGenerateImage(p) ==
    /\ RaceAt(p, "generateImage")
    /\ disk' = [disk EXCEPT !.image = compositeImage(ret[p])]
    /\ io' = [io EXCEPT ![p] = Append(io[p], "writeImage")]
    /\ run' = [run EXCEPT ![p] = RaceAdvance(p)]
    /\ call' = [call EXCEPT ![p] = "generateImage"]
    /\ UNCHANGED <<packer, sprites, ret, options, files, images, runs, cli>>

RaceGenerateJSON(p) ==
    /\ RaceAt(p, "generateJSON")
    /\ disk' = diskAfterJSON(options, disk, ret[p])
    /\ io' = [io EXCEPT ![p] = Append(io[p], "writeJSON")]
    /\ run' = [run EXCEPT ![p] = RaceAdvance(p)]
    /\ call' = [call EXCEPT ![p] = "generateJSON"]
    /\ UNCHANGED <<packer, sprites, ret, options, files, images, runs, cli>>

RaceSaveManifest(p) ==
    /\ RaceAt(p, "saveManifest")
    /\ disk' = [disk EXCEPT !.manifest = raceStoredManifest(p)]
    /\ io' = [io EXCEPT ![p] = Append(io[p], "writeManifest")]
    /\ run' = [run EXCEPT ![p] = RaceAdvance(p)]
    /\ call' = [call EXCEPT ![p] = "saveManifest"]
    /\ UNCHANGED <<packer, sprites, ret, options, files, images, runs, cli>>

NextRace ==
    \/ RaceChangeFiles
    \/ \E p \in Procs : RaceLoadSprites(p)
    \/ \E p \in Procs : RaceReorderSprites(p)
    \/ \E p \in Procs : RaceCheckCanFit(p)
    \/ \E p \in Procs : RacePackSprites(p)
    \/ \E p \in Procs : RaceGenerateImage(p)
    \/ \E p \in Procs : RaceGenerateJSON(p)
    \/ \E p \in Procs : RaceSaveManifest(p)

SpecRace == InitRace /\ [][NextRace]_vars

\* ---- building twice from the same input directory ----

\* generate() is called with stableOrder and preserveIds on a directory that
\* does not change, where an earlier build may have left any manifest
RebuildOptions == {o \in GenOptions : o.stableOrder /\ o.preserveIds}

InitRebuild ==
    /\ options \in RebuildOptions
    /\ images \in ImageSizes
    /\ files \in SUBSET Keys
    /\ disk \in {[NoDisk EXCEPT !.manifest = m] : m \in Manifests}
    /\ run = Idle
    /\ io = << >>
    /\ runs = 0
    /\ cli = NoCli
    /\ packer = [padding |-> 0, maxSize |-> 1, gridSize |-> 0, stableOrder |-> FALSE]
    /\ sprites = << >>
    /\ call = "none"
    /\ ret = [status |-> "none"]

NextRebuild ==
    \/ Generate
    \/ LoadSprites
    \/ ReorderSprites
    \/ CheckCanFit
    \/ PackSprites
    \/ GenerateImage
    \/ GenerateJSON
    \/ SaveManifest

SpecRebuild == InitRebuild /\ [][NextRebuild]_vars

\* ---- generate() with the tiled output format ----

TiledOptions ==
    [format : {"tiled"}, stableOrder : BOOLEAN, preserveIds : {TRUE},
     padding : 0..MaxGenPadding, spacing : {DefaultSpacing},
     maxSize : 1..MaxMaxSize, gridSize : 0..MaxGridSize]

InitTiled ==
    /\ options \in TiledOptions
    /\ images \in ImageSizes
    /\ files \in SUBSET Keys
    /\ disk = NoDisk
    /\ run = Idle
    /\ io = << >>
    /\ runs = 0
    /\ cli = NoCli
    /\ packer = [padding |-> 0, maxSize |-> 1, gridSize |-> 0, stableOrder |-> FALSE]
    /\ sprites = << >>
    /\ call = "none"
    /\ ret = [status |-> "none"]

NextTiled ==
    \/ Generate
    \/ LoadSprites
    \/ ReorderSprites
    \/ CheckCanFit
    \/ PackSprites
    \/ GenerateImage
    \/ GenerateJSON
    \/ SaveManifest

SpecTiled == InitTiled /\ [][NextTiled]_vars

\* ---- the command line program (src/src/cli.ts) ----

\* the default of --padding
DefaultCliPadding == 2

\* the text given to --max-size: a decimal integer literal, an optional
\* minus sign and digits
MaxSizeTexts ==
    [negative : BOOLEAN,
     digits : UNION { [1..n -> 0..9] : n \in 1..MaxDigits }]

\* the values --format is given
FormatTexts == {"phaser3-hash", "phaser3-array", "tiled"}

\* parseInt(text, 10) of such a literal
RECURSIVE DigitsValue(_)
DigitsValue(d) ==
    IF d = << >> THEN 0
    ELSE 10 * DigitsValue(SubSeq(d, 1, Len(d) - 1)) + d[Len(d)]

parseInt(text) ==
    IF text.negative THEN 0 - DigitsValue(text.digits) ELSE DigitsValue(text.digits)

\* a & b on two's complement integers (both within 32 bits, so ToInt32
\* changes neither)
RECURSIVE BitAnd(_, _)
BitAnd(a, b) ==
    IF a = 0 \/ b = 0 THEN 0
    ELSE IF a = 0 - 1 THEN b
    ELSE IF b = 0 - 1 THEN a
    ELSE (a % 2) * (b % 2) + 2 * BitAnd(a \div 2, b \div 2)

\* format !== 'phaser3-hash' && format !== 'phaser3-array'
InvalidFormat(format) == format # "phaser3-hash" /\ format # "phaser3-array"

\* (maxSize & (maxSize - 1)) !== 0
InvalidMaxSize(maxSize) == BitAnd(maxSize, maxSize - 1) # 0

\* this.options of the AtlasGenerator that generateAtlas constructs
CliGeneratorOptions(format, maxSize) ==
    [format |-> format, stableOrder |-> FALSE, preserveIds |-> TRUE,
     padding |-> DefaultCliPadding, spacing |-> DefaultSpacing,
     maxSize |-> maxSize, gridSize |-> 0]

InitCli ==
    /\ cli \in [status : {"start"}, exitCode : {0},
                format : FormatTexts, maxSize : MaxSizeTexts]
    /\ options = NoOptions
    /\ images \in ImageSizes
    /\ files \in SUBSET Keys
    /\ disk = NoDisk
    /\ run = Idle
    /\ io = << >>
    /\ runs = 0
    /\ packer = [padding |-> 0, maxSize |-> 1, gridSize |-> 0, stableOrder |-> FALSE]
    /\ sprites = << >>
    /\ call = "none"
    /\ ret = [status |-> "none"]

\* the action handler up to its await: validate, then process.exit(1) or
\* generateAtlas
CliAction ==
    /\ cli.status = "start"
    /\ LET maxSize == parseInt(cli.maxSize)
       IN  IF InvalidFormat(cli.format) \/ InvalidMaxSize(maxSize)
           THEN /\ cli' = [cli EXCEPT !.status = "exited", !.exitCode = 1]
                /\ call' = "process.exit"
                /\ UNCHANGED <<options, run, runs>>
           ELSE /\ cli' = [cli EXCEPT !.status = "generating"]
                /\ call' = "generateAtlas"
                /\ options' = CliGeneratorOptions(cli.format, maxSize)
                /\ run' = [status |-> "running", step |-> 0]
                /\ runs' = runs + 1
    /\ UNCHANGED <<packer, sprites, ret, files, images, disk, io>>

\* generateAtlas settled: the handler ends, or its catch calls process.exit(1)
CliExit ==
    /\ cli.status = "generating"
    /\ run.status \in {"done", "failed"}
    /\ cli' = [cli EXCEPT !.status = "exited",
                          !.exitCode = IF run.status = "done" THEN 0 ELSE 1]
    /\ UNCHANGED <<packer, sprites, call, ret, options, files, images, disk, run, io, runs>>

NextCli ==
    \/ CliAction
    \/ LoadSprites
    \/ CheckCanFit
    \/ PackSprites
    \/ GenerateImage
    \/ GenerateJSON
    \/ CliExit

SpecCli == InitCli /\ [][NextCli]_vars

\* ---- properties of pack ----

PackReturned == call = "pack" /\ ret.status = "ok"

PackRaised == call = "pack" /\ ret.status = "error"

GridMode == packer.gridSize # 0

IsPowerOfTwo(n) == \E k \in 0..n : 2 ^ k = n

\* the padded boxes [x, x+width+padding) x [y, y+height+padding) of a and b
\* have no point in common
PaddedDisjoint(a, b, pad) ==
    \/ a.x + a.width + pad <= b.x
    \/ b.x + b.width + pad <= a.x
    \/ a.y + a.height + pad <= b.y
    \/ b.y + b.height + pad <= a.y

\* C1: whenever pack returns, any two distinct placements have disjoint
\* padded boxes, in row mode and in grid mode, for every configuration.
C1_NoOverlap ==
    PackReturned =>
        \A i, j \in 1..Len(ret.placements) :
            i < j => PaddedDisjoint(ret.placements[i], ret.placements[j],
                                    packer.padding)

\* a grid layout with padding in which two sprites share a row and a third
\* one was wrapped to the next row
C1_Witness ==
    /\ PackReturned /\ GridMode /\ packer.padding > 0
    /\ Len(ret.placements) = 3
    /\ \E i, j \in 1..3 : i # j /\ ret.placements[i].gridY = ret.placements[j].gridY
    /\ \E i, j \in 1..3 : ret.placements[i].gridY < ret.placements[j].gridY

\* C2: whenever pack returns, every placement's rectangle lies inside the
\* returned canvas: 0 <= x, x+width <= width, 0 <= y, y+height <= height.
C2_Containment ==
    PackReturned =>
        \A i \in 1..Len(ret.placements) :
            LET pl == ret.placements[i]
            IN  /\ 0 <= pl.x /\ pl.x + pl.width <= ret.width
                /\ 0 <= pl.y /\ pl.y + pl.height <= ret.height

DimsArePowersOfTwo ==
    IF Len(sprites) = 0
    THEN ret.width = 0 /\ ret.height = 0
    ELSE IsPowerOfTwo(ret.width) /\ IsPowerOfTwo(ret.height)

\* C3 (as stated): for every configuration, any maxSize included, the
\* returned width and height are exact powers of two, and 0 for empty input.
C3_PowerOfTwoAnyMaxSize == PackReturned => DimsArePowersOfTwo

\* C3 (amended): when maxSize is a power of two, the returned width and
\* height are exact powers of two for non-empty input, and 0 for empty input.
C3_PowerOfTwo ==
    (PackReturned /\ IsPowerOfTwo(packer.maxSize)) => DimsArePowersOfTwo

\* two sprites of width 1 and 2 side by side in a row: the extent 3 is
\* rounded up to 4
C3_Witness ==
    /\ PackReturned /\ ~GridMode /\ packer.padding = 0 /\ packer.maxSize = 4
    /\ Len(ret.placements) = 2
    /\ ret.placements[1].y = ret.placements[2].y
    /\ ret.placements[1].width + ret.placements[2].width = 3
    /\ ret.width = 4

\* C4: when pack returns there is exactly one placement per input sprite,
\* and it carries the sprite's key, width, height and payload unchanged.
C4_OnePlacementPerSprite ==
    PackReturned =>
        /\ Len(ret.placements) = Len(sprites)
        /\ \A i \in 1..Len(sprites) :
              Cardinality({j \in 1..Len(ret.placements) :
                              ret.placements[j].buffer = sprites[i].buffer}) = 1
        /\ \A j \in 1..Len(ret.placements) :
              LET pl == ret.placements[j]
              IN  \E i \in 1..Len(sprites) :
                    /\ sprites[i].buffer = pl.buffer
                    /\ sprites[i].key = pl.key
                    /\ sprites[i].width = pl.width
                    /\ sprites[i].height = pl.height

\* three sprites packed with padding, the first placement not being the
\* first input sprite
C4_Witness ==
    /\ PackReturned /\ packer.padding > 0
    /\ Len(sprites) = 3
    /\ ret.placements[1].buffer # sprites[1].buffer

\* C5: in grid mode the returned width and height are exact multiples of
\* gridSize, for every gridSize.
C5_DimsMultipleOfGrid ==
    (PackReturned /\ GridMode) =>
        /\ ret.width % packer.gridSize = 0
        /\ ret.height % packer.gridSize = 0

\* C6: in grid mode the top-left pixel of every placement lies in the grid
\* cell (gridX, gridY) reported for it:
\* floor(x / gridSize) * gridSize = gridX * gridSize, and the same for y.
C6_CellOrigin ==
    (PackReturned /\ GridMode) =>
        \A i \in 1..Len(ret.placements) :
            LET pl == ret.placements[i]
                g == packer.gridSize
            IN  /\ (pl.x \div g) * g = pl.gridX * g
                /\ (pl.y \div g) * g = pl.gridY * g

\* C7: in grid mode every placement's x and y are multiples of gridSize.
C7_PositionsOnGrid ==
    (PackReturned /\ GridMode) =>
        \A i \in 1..Len(ret.placements) :
            /\ ret.placements[i].x % packer.gridSize = 0
            /\ ret.placements[i].y % packer.gridSize = 0

\* c is the least number of cells of size g that cover n pixels
IsCeilOf(c, n, g) == c * g >= n /\ (c - 1) * g < n

\* C8: in grid mode every placement has
\* gridCellsWide = ceil((width + padding) / gridSize) and
\* gridCellsHigh = ceil((height + padding) / gridSize), each at least 1.
C8_CellCount ==
    (PackReturned /\ GridMode) =>
        \A i \in 1..Len(ret.placements) :
            LET pl == ret.placements[i]
            IN  /\ IsCeilOf(pl.gridCellsWide, pl.width + packer.padding, packer.gridSize)
                /\ IsCeilOf(pl.gridCellsHigh, pl.height + packer.padding, packer.gridSize)
                /\ pl.gridCellsWide >= 1
                /\ pl.gridCellsHigh >= 1

\* a layout holding a one-cell sprite and a sprite spanning two cells
C8_Witness ==
    /\ PackReturned /\ GridMode /\ packer.gridSize > 1
    /\ \E i, j \in 1..Len(ret.placements) :
          /\ ret.placements[i].gridCellsWide = 1
          /\ ret.placements[j].gridCellsWide = 2

\* C9: canFit is necessary for pack to succeed: whenever pack returns a
\* result, canFit is true for the same input.
C9_CanFitNecessary == PackReturned => canFit(packer, sprites)

\* extent a sprite side takes along an axis, and where the cursor starts
Extent(p, size) ==
    IF p.gridSize # 0
    THEN (CHOOSE c \in 1..(size + p.padding) : IsCeilOf(c, size + p.padding, p.gridSize))
         * p.gridSize
    ELSE size + p.padding

Origin(p) == IF p.gridSize # 0 THEN 0 ELSE p.padding

\* two sprites that each fit a row alone, do not fit one row together, and
\* do not fit one above the other either
NeedsTwoRowsAndOverflows(p, s) ==
    /\ Len(s) = 2
    /\ \A i \in 1..2 : Origin(p) + Extent(p, s[i].width) <= p.maxSize
    /\ Origin(p) + Extent(p, s[1].width) + Extent(p, s[2].width) > p.maxSize
    /\ Origin(p) + Extent(p, s[1].height) + Extent(p, s[2].height) > p.maxSize

\* C10: canFit is not sufficient: for every pair of sprites that passes
\* canFit but needs two rows that together exceed maxSize, pack raises the
\* capacity error, in row mode and in grid mode.
C10_CanFitNotSufficient ==
    (call = "pack" /\ NeedsTwoRowsAndOverflows(packer, sprites)
        /\ canFit(packer, sprites))
    => ret.status = "error"

\* pack raised in grid mode on positive-size sprites that canFit accepts
C10_Witness ==
    /\ PackRaised /\ GridMode
    /\ NeedsTwoRowsAndOverflows(packer, sprites)
    /\ canFit(packer, sprites)

\* the same case in row mode
C10_WitnessRow ==
    /\ PackRaised /\ ~GridMode
    /\ NeedsTwoRowsAndOverflows(packer, sprites)
    /\ canFit(packer, sprites)

\* ---- properties of canFit, calculateRequiredArea and the capacity error ----

\* sum over the sprites of (width + pad) * (height + pad)
PaddedAreaSum(s, pad) ==
    LET f[i \in 0..Len(s)] ==
            IF i = 0 THEN 0
            ELSE f[i - 1] + (s[i].width + pad) * (s[i].height + pad)
    IN  f[Len(s)]

\* C11: canFit returns false exactly when the summed padded area is
\* greater than maxSize * maxSize or some sprite is wider or taller than
\* maxSize; otherwise it returns true.
C11_CanFitExact ==
    call = "canFit" =>
        (ret.value = FALSE <=>
            \/ PaddedAreaSum(sprites, packer.padding) > packer.maxSize * packer.maxSize
            \/ \E i \in 1..Len(sprites) :
                  sprites[i].width > packer.maxSize \/ sprites[i].height > packer.maxSize)

\* canFit answered true for sprites that fill maxSize * maxSize exactly
C11_Witness ==
    /\ call = "canFit" /\ ret.value = TRUE
    /\ Len(sprites) = 2
    /\ PaddedAreaSum(sprites, packer.padding) = packer.maxSize * packer.maxSize

\* C12: calculateRequiredArea returns the sum over all sprites of
\* (width + padding) * (height + padding), and 0 for an empty list.
C12_RequiredArea ==
    call = "calculateRequiredArea" =>
        /\ ret.value = PaddedAreaSum(sprites, packer.padding)
        /\ (Len(sprites) = 0 => ret.value = 0)

\* 2x2 and 1x1 with padding 2 give 4*4 + 3*3 = 25
C12_Witness ==
    /\ call = "calculateRequiredArea" /\ packer.padding = 2
    /\ Len(sprites) = 2
    /\ sprites[1].width = 2 /\ sprites[1].height = 2
    /\ sprites[2].width = 1 /\ sprites[2].height = 1
    /\ ret.value = 25

\* the cursor of packRowBased after the first k sprites in packing order
RowCursorAfter(k) ==
    RowLoop(packer, SubSeq(sortedSprites(packer, sprites), 1, k), RowStart(packer))

\* the k-th sprite in packing order does not fit the current row, and does
\* not fit below it either
RowOverflowsAt(k) ==
    LET st == RowCursorAfter(k - 1)
        sprite == sortedSprites(packer, sprites)[k]
    IN  /\ ~st.thrown
        /\ st.currentX + sprite.width + packer.padding > packer.maxSize
        /\ st.currentY + st.rowHeight + sprite.height + packer.padding > packer.maxSize

\* C13: in row mode pack raises the capacity error exactly when some sprite,
\* in packing order, does not fit the current row and after the wrap
\* currentY + height + padding > maxSize; the raised call returns no
\* placement at all.
C13_RowCapacityError ==
    (call = "pack" /\ ~GridMode) =>
        /\ ret.status = "error" <=> \E k \in 1..Len(sprites) : RowOverflowsAt(k)
        /\ ret.status = "error" => DOMAIN ret = {"status", "message"}

\* pack raised on the third sprite, after two sprites had been placed
C13_Witness ==
    /\ PackRaised /\ ~GridMode
    /\ Len(sprites) = 3
    /\ RowOverflowsAt(3)

\* the message of a capacity error names the grid size
NamesGridSize(message) ==
    /\ message.text = "Cannot fit all sprites in atlas with grid size"
    /\ message.gridSize # 0

\* C14: every error pack raises with gridSize configured names the grid
\* size in its message, and no error raised without gridSize does.
C14_ErrorNamesMode ==
    PackRaised =>
        /\ GridMode => (NamesGridSize(ret.message) /\ ret.message.gridSize = packer.gridSize)
        /\ ~GridMode => ~NamesGridSize(ret.message)

\* a capacity error raised in grid mode
C14_Witness == PackRaised /\ GridMode /\ Len(sprites) = 3

\* C15: pack([]) returns {placements: [], width: 0, height: 0} without
\* raising, for every configuration, grid mode included.
C15_EmptyInput ==
    (call = "pack" /\ Len(sprites) = 0) =>
        ret = [status |-> "ok", placements |-> << >>, width |-> 0, height |-> 0]

\* pack was called on the empty list by a packer in grid mode
C15_Witness == call = "pack" /\ Len(sprites) = 0 /\ GridMode /\ ret.status = "ok"

\* ---- properties of reorderSpritesFromManifest ----

Reordered == call = "reorderSpritesFromManifest"

KeysOf(s) == [i \in 1..Len(s) |-> s[i].key]

KeySet(s) == {s[i].key : i \in 1..Len(s)}

IsCurrentSprite(x) == \E i \in 1..Len(sprites) : sprites[i] = x

\* the keys of the manifest that are keys of current sprites, in manifest order
SurvivingOrder ==
    LET present(k) == k \in KeySet(sprites)
    IN  SelectSeq(disk.manifest.spriteOrder, present)

\* C16: reorderSpritesFromManifest returns first the current sprites whose key
\* is in manifest.spriteOrder, in manifest order, then the sprites whose key
\* is not, in ascending key order; with no manifest or an empty spriteOrder
\* it returns all sprites in ascending key order.
C16_ReorderResult ==
    Reordered =>
        LET r == ret.value
            known == SurvivingOrder
        IN  /\ Len(r) = Len(sprites)
            /\ \A i \in 1..Len(r) : IsCurrentSprite(r[i])
            /\ \A i \in 1..Len(known) : r[i].key = known[i]
            /\ \A i \in (Len(known) + 1)..Len(r) :
                  /\ \A j \in 1..Len(disk.manifest.spriteOrder) :
                        disk.manifest.spriteOrder[j] # r[i].key
                  /\ \A j \in (i + 1)..Len(r) : r[i].key < r[j].key

\* manifest [3] and current sprites {2, 1, 3} in that input order: the
\* result is [3, 1, 2]
C16_Witness ==
    /\ Reordered
    /\ disk.manifest.spriteOrder = <<3>>
    /\ KeysOf(sprites) = <<2, 1, 3>>
    /\ KeysOf(ret.value) = <<3, 1, 2>>

\* C17: a manifest key that is absent from the current sprites leaves an
\* unfilled gap: every surviving sprite listed after it keeps the index it
\* had in manifest.spriteOrder, and no sprite takes the removed key's index.
C17_RemovedKeysLeaveGaps ==
    Reordered =>
        LET r == ret.value
            order == disk.manifest.spriteOrder
        IN  \A g \in 1..Len(order) :
                order[g] \notin KeySet(sprites) =>
                    /\ g > Len(r)
                    /\ \A i \in (g + 1)..Len(order) :
                          order[i] \in KeySet(sprites) =>
                              (i <= Len(r) /\ r[i].key = order[i])

\* ---- properties of generate ----

BothFlags == options.stableOrder /\ options.preserveIds

IsWrite(e) == e \in {"writeImage", "writeJSON", "writeManifest"}

Occurrences(log, e) == Cardinality({i \in 1..Len(log) : log[i] = e})

\* C18: with stableOrder and preserveIds, when the sprite set of a run holds
\* every sprite of the previous successful run, each of those sprites has in
\* the placement list written by this run (its tile id) the index it has in
\* the manifest the previous run saved, so new sprites come after all of them.
C18_TileIdsStable ==
    (/\ BothFlags
     /\ Running /\ NextStep = "saveManifest"
     /\ disk.manifest.exists
     /\ \A i \in 1..Len(disk.manifest.spriteOrder) :
           disk.manifest.spriteOrder[i] \in files)
    => /\ Len(disk.json.frames) >= Len(disk.manifest.spriteOrder)
       /\ \A i \in 1..Len(disk.manifest.spriteOrder) :
             disk.json.frames[i].filename = disk.manifest.spriteOrder[i]

C20_NoPartialAtlas ==
    [][/\ run'.status = "failed" =>
            /\ disk' = disk
            /\ \A i \in 1..Len(io') : ~IsWrite(io'[i])
       /\ disk' # disk =>
            /\ Len(io') = Len(io) + 1
            /\ IsWrite(io'[Len(io')])]_vars

\* the second run failed in pack while the files of the first run exist
C20_Witness ==
    /\ run.status = "failed" /\ call = "pack" /\ runs = 2
    /\ disk.image.exists /\ disk.json.exists /\ disk.manifest.exists

\* ---- properties of the command line program ----

PowerOfTwoValue(n) == n >= 1 /\ Pow2AtLeast(1, n) = n

\* C21: for every --max-size value that is not a power of two the program
\* exits with a non-zero code before generateAtlas is called: no generate
\* run is started and no sprite is loaded or packed.
C21_RejectsNonPowerOfTwo ==
    (cli.status # "start" /\ ~PowerOfTwoValue(parseInt(cli.maxSize)))
    => /\ cli.status = "exited"
       /\ cli.exitCode # 0
       /\ run = Idle
       /\ sprites = << >>

\* ---- the packer keeps no state ----

AheadOf(a, b) ==
    IF packer.stableOrder THEN a.key < b.key
    ELSE IF GridMode
         THEN \/ a.width * a.height > b.width * b.height
              \/ a.width * a.height = b.width * b.height /\ a.buffer < b.buffer
         ELSE \/ a.height > b.height
              \/ a.height = b.height /\ a.buffer < b.buffer

\* C23: the placements are in packing order: with stableOrder off by
\* descending height in row mode and by descending area in grid mode,
\* sprites that tie in input order; with stableOrder on by ascending key.
C23_PlacementOrder ==
    PackReturned =>
        \A i, j \in 1..Len(ret.placements) :
            i < j => AheadOf(ret.placements[i], ret.placements[j])

\* grid mode without stableOrder: two sprites of equal area and different
\* height keep their input order behind a larger sprite given last
C23_Witness ==
    /\ PackReturned /\ GridMode /\ ~packer.stableOrder
    /\ Len(ret.placements) = 3
    /\ ret.placements[1].buffer = 3
    /\ ret.placements[2].buffer = 1
    /\ ret.placements[2].height < ret.placements[3].height

\* ---- generate: the order handed to the packer ----

\* C24: in generate with stableOrder and preserveIds the packer does not
\* sort again: the placement list pack returns is in the order that
\* reorderSpritesFromManifest returned.
C24_PackKeepsManifestOrder ==
    (BothFlags /\ call = "pack" /\ ret.status = "ok")
    => KeysOf(ret.placements) = KeysOf(sprites)

\* ---- two interleaved generate() calls ----

Completes(p) == run[p].status = "running" /\ run'[p].status = "done"

\* C25: the manifest read-modify-write is last-writer-wins without a guard:
\* a call that completes stores the spriteOrder of its own placements
\* whatever the manifest holds by then, and the manifest changes in no other
\* step, so the manifest finally stored is that of the call that wrote last.
C25_LastWriterWins ==
    [][/\ \A p \in Procs : Completes(p) => disk'.manifest = savedManifest(ret[p])
       /\ disk'.manifest # disk.manifest => \E p \in Procs : Completes(p)]_vars

\* both calls read the same manifest, which an earlier build had saved; the
\* first call wrote the manifest last, the image and the JSON on disk are
\* those of the second call, and their order is not the manifest's
C25_Witness ==
    /\ \A p \in Procs : run[p].status = "done"
    /\ run["first"].manifest.exists
    /\ run["first"].manifest = run["second"].manifest
    /\ disk.manifest = savedManifest(ret["first"])
    /\ disk.image = compositeImage(ret["second"])
    /\ disk.json = phaserFrames(ret["second"])
    /\ disk.manifest.spriteOrder # KeysOf(ret["second"].placements)

\* ---- row mode: containment when every sprite fits alone ----

\* every sprite fits into the atlas with padding on both sides
FitsAlone ==
    \A i \in 1..Len(sprites) :
        /\ sprites[i].width + 2 * packer.padding <= packer.maxSize
        /\ sprites[i].height + 2 * packer.padding <= packer.maxSize

\* C26: in row mode with stableOrder off, when every sprite satisfies
\* width + 2*padding <= maxSize and height + 2*padding <= maxSize, pack
\* raises the capacity error or every placement lies, with its padding,
\* inside the returned width and height.
C26_RowContainment ==
    (call = "pack" /\ ~GridMode /\ ~packer.stableOrder /\ FitsAlone)
    => \/ PackRaised
       \/ /\ PackReturned
          /\ \A i \in 1..Len(ret.placements) :
                LET pl == ret.placements[i]
                IN  /\ packer.padding <= pl.x
                    /\ pl.x + pl.width + packer.padding <= ret.width
                    /\ packer.padding <= pl.y
                    /\ pl.y + pl.height + packer.padding <= ret.height

\* a layout of two rows whose second row holds two sprites, the second of
\* which reaches the bottom edge
C26_Witness ==
    /\ PackReturned /\ ~GridMode /\ ~packer.stableOrder /\ FitsAlone
    /\ Len(ret.placements) = 3
    /\ ret.placements[2].y > packer.padding
    /\ ret.placements[3].y = ret.placements[2].y
    /\ ret.placements[3].y + ret.placements[3].height + packer.padding = ret.height

\* ---- grid mode: the cells allotted to the sprites ----

\* the cell rectangles of two placements share no cell
CellsDisjoint(a, b) ==
    \/ a.gridX + a.gridCellsWide <= b.gridX
    \/ b.gridX + b.gridCellsWide <= a.gridX
    \/ a.gridY + a.gridCellsHigh <= b.gridY
    \/ b.gridY + b.gridCellsHigh <= a.gridY

\* C27: in grid mode every placement's gridX and gridY are non-negative
\* integers and the cell rectangles of two distinct placements are disjoint.
C27_CellsDisjoint ==
    (PackReturned /\ GridMode) =>
        /\ \A i \in 1..Len(ret.placements) :
              /\ ret.placements[i].gridX \in Nat
              /\ ret.placements[i].gridY \in Nat
        /\ \A i, j \in 1..Len(ret.placements) :
              i # j => CellsDisjoint(ret.placements[i], ret.placements[j])

\* three sprites in two rows of cells, one of them two cells wide and one
\* in the second column
C27_Witness ==
    /\ PackReturned /\ GridMode
    /\ Len(ret.placements) = 3
    /\ \E i, j, k \in 1..3 :
          /\ ret.placements[i].gridCellsWide = 2
          /\ ret.placements[j].gridY > 0
          /\ ret.placements[k].gridX > 0

\* ---- reorderSpritesFromManifest keeps every sprite ----

\* C28: for current sprites with distinct keys and a manifest that lists no
\* key twice, the list reorderSpritesFromManifest returns is a permutation
\* of the input: the same length, and every input sprite exactly once.
C28_ReorderIsPermutation ==
    Reordered =>
        /\ Len(ret.value) = Len(sprites)
        /\ \A i \in 1..Len(sprites) :
              Cardinality({j \in 1..Len(ret.value) : ret.value[j] = sprites[i]}) = 1

\* the manifest lists a removed key and a surviving one, one sprite is new,
\* and the result is not in input order
C28_Witness ==
    /\ Reordered
    /\ disk.manifest.exists
    /\ \E i \in 1..Len(disk.manifest.spriteOrder) :
          disk.manifest.spriteOrder[i] \notin KeySet(sprites)
    /\ \E i \in 1..Len(disk.manifest.spriteOrder) :
          disk.manifest.spriteOrder[i] \in KeySet(sprites)
    /\ \E i \in 1..Len(sprites) :
          \A j \in 1..Len(disk.manifest.spriteOrder) :
              disk.manifest.spriteOrder[j] # sprites[i].key
    /\ ret.value # sprites

\* ---- rebuilding without a change ----

\* the second run has packed, and the files of the first run are on disk
SecondRunPacked ==
    /\ BothFlags
    /\ runs = 2 /\ Running /\ NextStep = "generateImage"
    /\ disk.json.exists

\* C29: when generate with stableOrder and preserveIds succeeds twice in a
\* row on the same sprites and options, starting with or without a
\* manifest, the second run has the placement order, the coordinates and
\* the manifest spriteOrder of the first: what it is about to write is what
\* the first run wrote.
C29_RebuildFixpoint ==
    SecondRunPacked =>
        /\ ret.status = "ok"
        /\ phaserFrames(ret) = disk.json
        /\ compositeImage(ret) = disk.image
        /\ savedManifest(ret) = disk.manifest

\* the second run repeats an order of three sprites that the first run took
\* from the manifest it found: it is not the order of a build without one
C29_Witness ==
    /\ SecondRunPacked
    /\ Len(ret.placements) = 3
    /\ KeysOf(ret.placements) # KeysOf(pack(packer, SortByKey(sprites)).placements)

\* ---- the tiled output ----

\* the tileset was just written for a grid on which every sprite takes one cell
SingleCellTileset ==
    /\ call = "generateJSON"
    /\ options.format = "tiled"
    /\ options.gridSize # 0
    /\ \A i \in 1..Len(sprites) :
          /\ sprites[i].width + packer.padding <= options.gridSize
          /\ sprites[i].height + packer.padding <= options.gridSize

\* C30: in the tiled output with gridSize set, when every sprite takes one
\* grid cell, the tile with id i is the i-th placement and sits in grid cell
\* (i mod columns, i div columns), columns being the column count written to
\* the tileset, floor(returned width / gridSize).
C30_TileCells ==
    SingleCellTileset =>
        /\ disk.tsj.exists
        /\ disk.tsj.columns = ret.width \div options.gridSize
        /\ disk.tsj.tilecount = Len(ret.placements)
        /\ \A n \in 1..Len(ret.placements) :
              /\ disk.tsj.tiles[n].id = n - 1
              /\ disk.tsj.tiles[n].type = ret.placements[n].key
              /\ ret.placements[n].gridX = (n - 1) % disk.tsj.columns
              /\ ret.placements[n].gridY = (n - 1) \div disk.tsj.columns

\* three tiles in two rows and two columns of cells
C30_Witness ==
    /\ SingleCellTileset
    /\ Len(ret.placements) = 3
    /\ \E n \in 1..3 : ret.placements[n].gridY > 0
    /\ \E n \in 1..3 : ret.placements[n].gridX > 0

====
